---- MODULE Spec2Model ----
(***************************************************************************)
(* A model of yblp, the Yugabyte log processor (src/src/main.rs and        *)
(* src/src/lib.rs): main opens every input file, hands one                 *)
(* YBLogReader::load task per file to a thread pool, joins the pool, and   *)
(* sorts what the tasks pushed into the shared OutputCollector.            *)
(*                                                                         *)
(* A line of an input file is a record that names which of the regexes of  *)
(* lib.rs matches it ("kind") and carries the captured digit strings as    *)
(* sequences of digits, so that parse_capture's conversion to a machine    *)
(* integer is computed, overflow included.  "contains" says whether the    *)
(* line holds the --line-contains substring.  The lines of a file are      *)
(* supplied by the reader one at a time.                                   *)
(***************************************************************************)
EXTENDS Integers, Sequences, FiniteSets, TLC

\* ---------------------------------------------------------------------------
\* Bounds of the model
\* ---------------------------------------------------------------------------
MaxFiles == 2

MaxTotalLines == 3

MaxCpus == 2

\* In a run on one file with one worker the file may, besides the
\* MaxTotalLines lines, hold up to MaxPadding lines of plain text
MaxPadding == 10

\* ---------------------------------------------------------------------------
\* Program constants
\* ---------------------------------------------------------------------------
PREAMBLE_NUM_LINES == 10

\* Option<T>: None is the empty sequence, Some(x) the one-element sequence;
\* an Option<NaiveDateTime> is None or the 7-tuple itself.
None == <<>>

Some(x) == <<x>>

\* i64::MAX and i32::MAX as digit strings (the widths of YBLogLine.thread_id
\* and YBLogLine.line_number).
I64_MAX == <<9,2,2,3,3,7,2,0,3,6,8,5,4,7,7,5,8,0,7>>

I32_MAX == <<2,1,4,7,4,8,3,6,4,7>>

\* ---------------------------------------------------------------------------
\* Digit strings and parse_capture
\* ---------------------------------------------------------------------------
RECURSIVE StripZeros(_)
StripZeros(ds) ==
    IF Len(ds) > 1 /\ Head(ds) = 0 THEN StripZeros(Tail(ds)) ELSE ds

RECURSIVE DigitsValue(_)
DigitsValue(ds) ==
    IF ds = <<>> THEN 0
    ELSE 10 * DigitsValue(SubSeq(ds, 1, Len(ds) - 1)) + ds[Len(ds)]

\* a <= b for digit strings without leading zeros
DigitsLeq(a, b) ==
    \/ Len(a) < Len(b)
    \/ /\ Len(a) = Len(b)
       /\ \/ a = b
          \/ \E i \in 1..Len(a) :
                /\ a[i] < b[i]
                /\ \A j \in 1..(i - 1) : a[j] = b[j]

\* str::parse::<T>() of a captured run of digits succeeds iff the value fits T;
\* parse_capture panics otherwise.
parse_capture(capture, max) == DigitsLeq(StripZeros(capture), max)

\* ---------------------------------------------------------------------------
\* Calendar (chrono::NaiveDate::from_ymd, and_hms, and_hms_micro)
\* ---------------------------------------------------------------------------
IsLeap(y) == (y % 4 = 0 /\ y % 100 # 0) \/ y % 400 = 0

DaysInMonth(y, m) ==
    IF m = 2 THEN (IF IsLeap(y) THEN 29 ELSE 28)
    ELSE IF m \in {4, 6, 9, 11} THEN 30 ELSE 31

\* from_ymd panics unless the date exists
from_ymd(y, m, d) == m \in 1..12 /\ d \in 1..DaysInMonth(y, m)

\* and_hms / and_hms_micro panic unless the time of day exists
and_hms(h, mi, s) == h < 24 /\ mi < 60 /\ s < 60

\* NaiveDateTime as <<year, month, day, hour, minute, second, microsecond>>
\* with the derived ordering (date, then time)
TsLess(a, b) ==
    \E i \in 1..7 : a[i] < b[i] /\ \A j \in 1..(i - 1) : a[j] = b[j]

TsLeq(a, b) == a = b \/ TsLess(a, b)

TsYear(ts) == ts[1]

\* ---------------------------------------------------------------------------
\* Lines
\* ---------------------------------------------------------------------------
LogLine(mo, d, h, mi, s, us, tid, ln, c) ==
    [kind |-> "log", month |-> mo, day |-> d, hour |-> h, minute |-> mi,
     second |-> s, micro |-> us, thread_id |-> tid, line_number |-> ln,
     contains |-> c]

CreatedLine(y, mo, d, h, mi, s) ==
    [kind |-> "created", year |-> y, month |-> mo, day |-> d, hour |-> h,
     minute |-> mi, second |-> s, contains |-> FALSE]

\* I0408 10:34:43.355123 12345 server.cc:42] starting up
LineA == LogLine(<<0,4>>, <<0,8>>, <<1,0>>, <<3,4>>, <<4,3>>, <<3,5,5,1,2,3>>,
                 <<1,2,3,4,5>>, <<4,2>>, TRUE)

\* I0408 14:44:23.000000 12345 server.cc:42] ...
LineB == LogLine(<<0,4>>, <<0,8>>, <<1,4>>, <<4,4>>, <<2,3>>, <<0,0,0,0,0,0>>,
                 <<1,2,3,4,5>>, <<4,2>>, FALSE)

\* W0409 00:00:00.000001 7 tablet.cc:7] ...
LineC == LogLine(<<0,4>>, <<0,9>>, <<0,0>>, <<0,0>>, <<0,0>>, <<0,0,0,0,0,1>>,
                 <<7>>, <<7>>, TRUE)

\* I0230 10:00:00.000000 1 a.cc:1] ...      (February 30)
LineBadDate == LogLine(<<0,2>>, <<3,0>>, <<1,0>>, <<0,0>>, <<0,0>>,
                       <<0,0,0,0,0,0>>, <<1>>, <<1>>, TRUE)

\* I0408 10:34:43.355123 9223372036854775808 server.cc:42] ...
LineBigThread == LogLine(<<0,4>>, <<0,8>>, <<1,0>>, <<3,4>>, <<4,3>>,
                         <<3,5,5,1,2,3>>,
                         <<9,2,2,3,3,7,2,0,3,6,8,5,4,7,7,5,8,0,8>>, <<4,2>>, TRUE)

\* I0408 10:34:43.355123 12345 server.cc:2147483648] ...
LineBigNumber == LogLine(<<0,4>>, <<0,8>>, <<1,0>>, <<3,4>>, <<4,3>>,
                         <<3,5,5,1,2,3>>, <<1,2,3,4,5>>,
                         <<2,1,4,7,4,8,3,6,4,8>>, TRUE)

\* Log file created at: 2020/04/08 14:44:23
Created2020 == CreatedLine(<<2,0,2,0>>, <<0,4>>, <<0,8>>, <<1,4>>, <<4,4>>, <<2,3>>)

\* Log file created at: 2021/04/08 14:44:23
Created2021 == CreatedLine(<<2,0,2,1>>, <<0,4>>, <<0,8>>, <<1,4>>, <<4,4>>, <<2,3>>)

\* Log file created at: 2021/04/09 00:00:00
CreatedLate == CreatedLine(<<2,0,2,1>>, <<0,4>>, <<0,9>>, <<0,0>>, <<0,0>>, <<0,0>>)

\* Log file created at: 2021/02/30 10:00:00      (February 30)
CreatedBadDate == CreatedLine(<<2,0,2,1>>, <<0,2>>, <<3,0>>, <<1,0>>, <<0,0>>, <<0,0>>)

\* Running on machine: yb-1
MachineLine == [kind |-> "machine", contains |-> FALSE]

\* not a log line at all
OtherLine == [kind |-> "other", contains |-> TRUE]

Lines == {LineA, LineB, LineC, LineBadDate, LineBigThread, LineBigNumber,
          Created2020, Created2021, CreatedLate, CreatedBadDate, MachineLine,
          OtherLine}

\* ---------------------------------------------------------------------------
\* Command-line values the runs are started with
\* ---------------------------------------------------------------------------
\* --lowest-timestamp / --highest-timestamp "2021-04-08 14:44:23", or absent
\* (parse_filter_timestamp gives whole seconds)
FilterTimestamps == {None, <<2021, 4, 8, 14, 44, 23, 0>>}

\* --default-year 2021
DefaultYears == {2021}

\* --line-contains given or absent
LineContains == {None, Some("substring")}

ArgInfos ==
    [lowest_timestamp : FilterTimestamps, highest_timestamp : FilterTimestamps,
     default_year : DefaultYears, line_contains : LineContains]

\* ---------------------------------------------------------------------------
\* State
\* ---------------------------------------------------------------------------
VARIABLES
    arg_info,        \* ArgInfo, shared read-only (YBLogReaderContext.arg_info)
    cpus,            \* num_cpus::get(), the size of the pool
    input_files,     \* main's BTreeSet of input files, as 1..n in set order
    main_pc,         \* where main is: "open", "execute", "join", "lock",
                     \* "sort", "emit", "done", "panicked"
    queue,           \* jobs handed to pool.execute and not yet taken
    readers,         \* per file: the YBLogReader and the locals of its load()
    holder,          \* who holds the Mutex<OutputCollector>: None, Some(file)
                     \* or Some("main")
    output_lines,    \* OutputCollector.output_lines
    pushed,          \* history: the records on which push was called
    lines            \* main's sorted clone of output_lines

vars == <<arg_info, cpus, input_files, main_pc, queue, readers, holder,
          output_lines, pushed, lines>>

NoLine == [kind |-> "none", contains |-> FALSE]

\* A reader before File::open.  pc: "closed", "open" (in main's readers
\* vector), "queued", "next" (load is about to read a line), "lock",
\* "push" (holds the mutex), "done" (loop ended at end of file), "skipped"
\* (loop left by the break of the preamble date test), "panicked".
NewReader ==
    [pc |-> "closed",
     line_index |-> 1,
     successfully_parsed_lines |-> 0,
     unsuccessfully_parsed_lines |-> 0,
     skipped_lines |-> 0,
     created_at |-> None,            \* preamble.created_at
     running_on_machine |-> None,    \* preamble.running_on_machine
     line |-> NoLine,                \* the line of the current iteration
     outcome |-> "none",             \* history: what became of that line
     parsed_line |-> None,           \* the record waiting to be pushed
     slot |-> 0,                     \* push: the length read under the lock
     padding |-> 0,                  \* history: lines of plain text read
     summary |-> None,               \* the counters load() printed at its end
     fault |-> "none"]               \* why the task panicked

Init ==
    /\ arg_info \in ArgInfos
    /\ cpus \in 1..MaxCpus
    /\ input_files \in {1..n : n \in 1..MaxFiles}
    /\ main_pc = "open"
    /\ queue = <<>>
    /\ readers = [f \in input_files |-> NewReader]
    /\ holder = None
    /\ output_lines = <<>>
    /\ pushed = {}
    /\ lines = <<>>

\* ---------------------------------------------------------------------------
\* YBLogLine::parse and the timestamps
\* ---------------------------------------------------------------------------
\* The NaiveDateTime a log line denotes in the given year
LineTimestamp(l, year) ==
    <<year, DigitsValue(l.month), DigitsValue(l.day), DigitsValue(l.hour),
      DigitsValue(l.minute), DigitsValue(l.second), DigitsValue(l.micro)>>

\* YBLogLine::parse(line, context, year): no match, a record, or a panic of
\* the calling thread.  The fields are built in the order they are written.
YBLogLine_parse(l, year) ==
    IF l.kind # "log" THEN [tag |-> "None"]
    ELSE IF ~from_ymd(year, DigitsValue(l.month), DigitsValue(l.day))
        THEN [tag |-> "panic", fault |-> "calendar"]
    ELSE IF ~and_hms(DigitsValue(l.hour), DigitsValue(l.minute),
                     DigitsValue(l.second))
        THEN [tag |-> "panic", fault |-> "calendar"]
    ELSE IF ~parse_capture(l.thread_id, I64_MAX)
        THEN [tag |-> "panic", fault |-> "thread_id"]
    ELSE IF ~parse_capture(l.line_number, I32_MAX)
        THEN [tag |-> "panic", fault |-> "line_number"]
    ELSE [tag |-> "Some", timestamp |-> LineTimestamp(l, year)]

\* The created_at of a "Log file created at" line: a panic or the date-time
CreatedAt(l) ==
    IF ~parse_capture(l.year, I32_MAX)
        THEN [tag |-> "panic", fault |-> "created_at"]
    ELSE IF ~from_ymd(DigitsValue(l.year), DigitsValue(l.month),
                      DigitsValue(l.day))
        THEN [tag |-> "panic", fault |-> "created_at"]
    ELSE IF ~and_hms(DigitsValue(l.hour), DigitsValue(l.minute),
                     DigitsValue(l.second))
        THEN [tag |-> "panic", fault |-> "created_at"]
    ELSE [tag |-> "Some",
          timestamp |-> <<DigitsValue(l.year), DigitsValue(l.month),
                          DigitsValue(l.day), DigitsValue(l.hour),
                          DigitsValue(l.minute), DigitsValue(l.second), 0>>]

\* The year load() resolves a line with, given the preamble as it is now
YearOf(created_at, args) ==
    IF created_at # None THEN TsYear(created_at) ELSE args.default_year

\* The two time-bound tests of load()
OutOfBounds(timestamp, args) ==
    \/ args.highest_timestamp # None /\ TsLess(args.highest_timestamp, timestamp)
    \/ args.lowest_timestamp # None /\ TsLess(timestamp, args.lowest_timestamp)

\* The --line-contains test of load()
LacksSubstring(l, args) == args.line_contains # None /\ ~l.contains

\* The println at the end of load(): the three counters
PrintSummary(r) ==
    [r EXCEPT !.summary = Some(<<r.successfully_parsed_lines,
                                 r.unsuccessfully_parsed_lines,
                                 r.skipped_lines>>)]

Panicked(r, l, why) ==
    [r EXCEPT !.pc = "panicked", !.fault = why, !.line = l, !.outcome = "panic"]

\* The part of one iteration of load() after the preamble window's tests:
\* r is the reader with its preamble already updated by this line.
LoadBody(r, l, f, args) ==
    IF LacksSubstring(l, args)
    THEN [r EXCEPT !.skipped_lines = @ + 1, !.line_index = @ + 1,
                   !.line = l, !.outcome = "skipped"]
    ELSE LET p == YBLogLine_parse(l, YearOf(r.created_at, args))
         IN  IF p.tag = "panic" THEN Panicked(r, l, p.fault)
             ELSE IF p.tag = "None"
             THEN [r EXCEPT !.unsuccessfully_parsed_lines = @ + 1,
                            !.line_index = @ + 1,
                            !.line = l, !.outcome = "unparsed"]
             ELSE IF OutOfBounds(p.timestamp, args)
             THEN [r EXCEPT !.successfully_parsed_lines = @ + 1,
                            !.skipped_lines = @ + 1,
                            !.line_index = @ + 1,
                            !.line = l, !.outcome = "skipped"]
             ELSE [r EXCEPT !.successfully_parsed_lines = @ + 1,
                            !.pc = "lock",
                            !.parsed_line =
                                Some([timestamp |-> p.timestamp, file |-> f,
                                      line_index |-> r.line_index]),
                            !.line = l, !.outcome = "pending"]

\* A window that never closes
WindowNeverCloses(r) == TRUE

\* if line_index <= PREAMBLE_NUM_LINES
InPreambleWindow(r) == r.line_index <= PREAMBLE_NUM_LINES

\* A test that also stops on a creation date equal to the bound
CreatedAtOrAfterBound(created_at, args) ==
    /\ args.highest_timestamp # None
    /\ TsLeq(args.highest_timestamp, created_at)

\* if let Some(ts_upper_limit) = highest_timestamp
\*     { if created_at > ts_upper_limit { ...; break; } }
CreatedAfterBound(created_at, args) ==
    /\ args.highest_timestamp # None
    /\ TsLess(args.highest_timestamp, created_at)

\* A loop that looks only for the preamble inside the window and passes over
\* the other lines there
WindowIsPreambleOnly(r, l, f, args) ==
    IF InPreambleWindow(r)
    THEN [r EXCEPT !.unsuccessfully_parsed_lines = @ + 1, !.line_index = @ + 1,
                   !.line = l, !.outcome = "unparsed"]
    ELSE LoadBody(r, l, f, args)

\* One iteration of the loop of load() on line l, up to the point where it
\* either ends or has to take the collector's lock.
LoadIteration(r, l, f, args) ==
    IF InPreambleWindow(r) /\ l.kind = "created"
    THEN LET c == CreatedAt(l)
         IN  IF c.tag = "panic" THEN Panicked(r, l, c.fault)
             ELSE IF CreatedAfterBound(c.timestamp, args)
             THEN PrintSummary(
                      [r EXCEPT !.created_at = c.timestamp, !.pc = "skipped",
                                !.line = l, !.outcome = "break"])
             ELSE LoadBody([r EXCEPT !.created_at = c.timestamp], l, f, args)
    ELSE IF InPreambleWindow(r) /\ l.kind = "machine"
    THEN LoadBody([r EXCEPT !.running_on_machine = Some("host")], l, f, args)
    ELSE LoadBody(r, l, f, args)

\* ---------------------------------------------------------------------------
\* The sort of main
\* ---------------------------------------------------------------------------
\* Insert x behind every element that is not greater than it
RECURSIVE Insert(_, _)
Insert(sorted, x) ==
    IF sorted = <<>> THEN <<x>>
    ELSE IF TsLess(x.timestamp, Head(sorted).timestamp) THEN <<x>> \o sorted
    ELSE <<Head(sorted)>> \o Insert(Tail(sorted), x)

RECURSIVE StableSort(_)
StableSort(s) ==
    IF s = <<>> THEN <<>>
    ELSE Insert(StableSort(SubSeq(s, 1, Len(s) - 1)), s[Len(s)])

\* A sort that leaves the lines as they are, as the empty
\* OutputCollector::sort_lines would
sort_nothing(s) == s

\* A sort that is not stable, as sort_unstable_by may be: x goes in front of
\* the elements equal to it
RECURSIVE InsertInFront(_, _)
InsertInFront(sorted, x) ==
    IF sorted = <<>> THEN <<x>>
    ELSE IF TsLeq(x.timestamp, Head(sorted).timestamp) THEN <<x>> \o sorted
    ELSE <<Head(sorted)>> \o InsertInFront(Tail(sorted), x)

RECURSIVE sort_unstable_by(_)
sort_unstable_by(s) ==
    IF s = <<>> THEN <<>>
    ELSE InsertInFront(sort_unstable_by(SubSeq(s, 1, Len(s) - 1)), s[Len(s)])

\* lines.sort_by(|a, b| a.timestamp.partial_cmp(&b.timestamp).unwrap())
sort_by(s) == StableSort(s)

\* ---------------------------------------------------------------------------
\* The mutex and the pool
\* ---------------------------------------------------------------------------
MainThread == 0

\* A mutex that excludes nobody
MutexNeverHeld == TRUE

\* Mutex::lock returns when nobody holds the mutex
MutexFree == holder = None

FilesIn(state) == {f \in input_files : readers[f].pc = state}

\* A pool in which a task that panicked still counts as running
ActiveOrPanicked ==
    FilesIn("next") \cup FilesIn("lock") \cup FilesIn("push")
        \cup FilesIn("panicked")

\* The tasks that occupy a worker of the pool
Active == FilesIn("next") \cup FilesIn("lock") \cup FilesIn("push")

First(S) == CHOOSE x \in S : \A y \in S : x <= y

\* The number of lines load() has taken from the reader of a file
LinesRead(r) ==
    IF r.pc \in {"lock", "push", "skipped"} \/ r.outcome = "panic"
    THEN r.line_index ELSE r.line_index - 1

RECURSIVE SumLinesRead(_)
SumLinesRead(F) ==
    IF F = {} THEN 0
    ELSE LET f == First(F)
         IN  LinesRead(readers[f]) + SumLinesRead(F \ {f})

\* The runs in which the file may be long: one input file, one worker
LongFileRun == Cardinality(input_files) = 1 /\ cpus = 1

\* A line of plain text of a long file
IsPadding(l) == LongFileRun /\ l = OtherLine

\* The sizes of the input the model goes through: at most MaxTotalLines
\* lines in all files together, not counting the plain text of a long file,
\* of which there are at most MaxPadding lines
WithinInput(f, l) ==
    IF IsPadding(l) THEN readers[f].padding < MaxPadding
    ELSE SumLinesRead(input_files) - readers[f].padding < MaxTotalLines

\* ---------------------------------------------------------------------------
\* main
\* ---------------------------------------------------------------------------
\* One turn of the loop that opens the files: YBLogReader::new succeeds
MainOpen ==
    /\ main_pc = "open"
    /\ LET f == First(FilesIn("closed"))
       IN  /\ readers' = [readers EXCEPT ![f].pc = "open"]
           /\ main_pc' = IF FilesIn("closed") = {f} THEN "execute" ELSE "open"
    /\ UNCHANGED <<arg_info, cpus, input_files, queue, holder, output_lines,
                   pushed, lines>>

\* YBLogReader::new returns Err (File::open failed) and main unwraps it
MainOpenFail ==
    /\ main_pc = "open"
    /\ LET f == First(FilesIn("closed"))
       IN  readers' = [readers EXCEPT ![f].fault = "open"]
    /\ main_pc' = "panicked"
    /\ UNCHANGED <<arg_info, cpus, input_files, queue, holder, output_lines,
                   pushed, lines>>

\* One turn of the loop that hands the readers to the pool
MainExecute ==
    /\ main_pc = "execute"
    /\ LET f == First(FilesIn("open"))
       IN  /\ readers' = [readers EXCEPT ![f].pc = "queued"]
           /\ queue' = Append(queue, f)
           /\ main_pc' = IF FilesIn("open") = {f} THEN "join" ELSE "execute"
    /\ UNCHANGED <<arg_info, cpus, input_files, holder, output_lines, pushed,
                   lines>>

\* A join that waits for the queue to drain and not for the running tasks
QueueDrained == queue = <<>>

\* What pool.join() waits for: nothing queued, nothing running
PoolIdle == queue = <<>> /\ Active = {}

\* pool.join() returns
MainJoin ==
    /\ main_pc = "join"
    /\ PoolIdle
    /\ main_pc' = "lock"
    /\ UNCHANGED <<arg_info, cpus, input_files, queue, readers, holder,
                   output_lines, pushed, lines>>

\* output_collector_ptr.lock().unwrap() and the clone of output_lines
MainLock ==
    /\ main_pc = "lock"
    /\ MutexFree
    /\ holder' = Some(MainThread)
    /\ lines' = output_lines
    /\ main_pc' = "sort"
    /\ UNCHANGED <<arg_info, cpus, input_files, queue, readers, output_lines,
                   pushed>>

MainSort ==
    /\ main_pc = "sort"
    /\ lines' = sort_by(lines)
    /\ main_pc' = "emit"
    /\ UNCHANGED <<arg_info, cpus, input_files, queue, readers, holder,
                   output_lines, pushed>>

\* The lines are printed, main returns and drops the guard
MainEmit ==
    /\ main_pc = "emit"
    /\ main_pc' = "done"
    /\ holder' = None
    /\ UNCHANGED <<arg_info, cpus, input_files, queue, readers, output_lines,
                   pushed, lines>>

\* ---------------------------------------------------------------------------
\* The pool's workers and YBLogReader::load
\* ---------------------------------------------------------------------------
\* A free worker takes the oldest queued job and enters load()
WorkerTake ==
    /\ queue # <<>>
    /\ Cardinality(Active) < cpus
    /\ readers' = [readers EXCEPT ![Head(queue)].pc = "next"]
    /\ queue' = Tail(queue)
    /\ UNCHANGED <<arg_info, cpus, input_files, main_pc, holder, output_lines,
                   pushed, lines>>

\* The reader is at the end of the file: the loop ends, the counters are
\* printed, the task returns
ReadEof(f) ==
    /\ readers[f].pc = "next"
    /\ readers' = [readers EXCEPT ![f] =
                     PrintSummary([@ EXCEPT !.pc = "done", !.line = NoLine,
                                            !.outcome = "none"])]
    /\ UNCHANGED <<arg_info, cpus, input_files, main_pc, queue, holder,
                   output_lines, pushed, lines>>

\* What a failed read does to the reader: maybe_line.unwrap() panics
ReadFailed(r) ==
    [r EXCEPT !.pc = "panicked", !.fault = "io", !.line = NoLine,
              !.outcome = "none"]

\* The whole process dies with the task (a panic that aborts)
ProcessAborts(rs, f) ==
    [g \in DOMAIN rs |->
        IF g = f THEN ReadFailed(rs[g])
        ELSE IF rs[g].pc \in {"queued", "next", "lock", "push"}
             THEN [rs[g] EXCEPT !.pc = "panicked"]
             ELSE rs[g]]

\* A panic inside the closure given to pool.execute unwinds the thread that
\* runs it and nothing else: the other readers are left as they are
TaskPanics(rs, f) == [rs EXCEPT ![f] = ReadFailed(@)]

\* The reader returns Some(Err(e))
ReadErr(f) ==
    /\ readers[f].pc = "next"
    /\ readers' = TaskPanics(readers, f)
    /\ UNCHANGED <<arg_info, cpus, input_files, main_pc, queue, holder,
                   output_lines, pushed, lines>>

\* The reader returns a line and the loop body runs on it
LoadLine(f, l) ==
    /\ readers[f].pc = "next"
    /\ WithinInput(f, l)
    /\ readers' = [readers EXCEPT ![f] =
                     [LoadIteration(@, l, f, arg_info) EXCEPT
                        !.padding = IF IsPadding(l) THEN @ + 1 ELSE @]]
    /\ UNCHANGED <<arg_info, cpus, input_files, main_pc, queue, holder,
                   output_lines, pushed, lines>>

\* output_collector_mutex.lock(), and push reads the vector's length
Lock(f) ==
    /\ readers[f].pc = "lock"
    /\ MutexFree
    /\ holder' = Some(f)
    /\ readers' = [readers EXCEPT ![f].pc = "push",
                                  ![f].slot = Len(output_lines)]
    /\ UNCHANGED <<arg_info, cpus, input_files, main_pc, queue, output_lines,
                   pushed, lines>>

\* A guard that lives on to the end of load()
GuardKept(f) == Some(f)

\* The MutexGuard is a temporary of the push statement: the mutex is free
\* when the statement ends
GuardDropped(f) == None

\* push writes the record behind the length it read, the guard is dropped
\* and the iteration ends
Push(f) ==
    /\ readers[f].pc = "push"
    /\ LET rec == readers[f].parsed_line[1]
       IN  /\ output_lines' =
                 Append(SubSeq(output_lines, 1, readers[f].slot), rec)
           /\ pushed' = pushed \cup {rec}
    /\ holder' = GuardDropped(f)
    /\ readers' = [readers EXCEPT ![f].pc = "next", ![f].parsed_line = None,
                                  ![f].slot = 0, ![f].outcome = "appended",
                                  ![f].line_index = @ + 1]
    /\ UNCHANGED <<arg_info, cpus, input_files, main_pc, queue, lines>>

Next ==
    \/ MainOpen
    \/ MainOpenFail
    \/ MainExecute
    \/ MainJoin
    \/ MainLock
    \/ MainSort
    \/ MainEmit
    \/ WorkerTake
    \/ \E f \in input_files : ReadEof(f)
    \/ \E f \in input_files : ReadErr(f)
    \/ \E f \in input_files : \E l \in Lines : LoadLine(f, l)
    \/ \E f \in input_files : Lock(f)
    \/ \E f \in input_files : Push(f)

Spec == Init /\ [][Next]_vars

Terminal == {"done", "skipped", "panicked"}

TypeOK ==
    /\ main_pc \in {"open", "execute", "join", "lock", "sort", "emit", "done",
                    "panicked"}
    /\ \A f \in input_files :
          readers[f].pc \in {"closed", "open", "queued", "next", "lock", "push",
                             "done", "skipped", "panicked"}

\* ---------------------------------------------------------------------------
\* Properties
\* ---------------------------------------------------------------------------
Range(s) == {s[i] : i \in 1..Len(s)}

\* s holds every element of S once and nothing else
HoldsExactlyOnce(s, S) == Len(s) = Cardinality(S) /\ Range(s) = S

\* C1: once pool.join() has returned, output_lines (and main's clone of it)
\* holds every record a scanner pushed exactly once and nothing else.
C1_NoLossNoDuplication ==
    /\ main_pc \in {"lock", "sort", "emit", "done"}
          => HoldsExactlyOnce(output_lines, pushed)
    /\ main_pc \in {"sort", "emit", "done"} => HoldsExactlyOnce(lines, pushed)

\* Two scanners ran side by side and their pushes interleaved: the append
\* order is file a, file b, file a.
C1_Witness ==
    /\ main_pc = "done"
    /\ cpus >= 2
    /\ Len(output_lines) = 3
    /\ output_lines[1].file = output_lines[3].file
    /\ output_lines[1].file # output_lines[2].file

\* C2: the emitted sequence is sorted non-decreasing by timestamp.
C2_OutputSorted ==
    main_pc \in {"emit", "done"} =>
        \A i \in 1..(Len(lines) - 1) :
            TsLeq(lines[i].timestamp, lines[i + 1].timestamp)

\* One file gave t1 and t3, the other t2, pushed in an order that is not the
\* order of time, and the output is t1, t2, t3.
C2_Witness ==
    /\ main_pc = "done"
    /\ Len(lines) = 3
    /\ lines # output_lines
    /\ lines[1].file = lines[3].file
    /\ lines[1].file # lines[2].file
    /\ TsLess(lines[1].timestamp, lines[2].timestamp)
    /\ TsLess(lines[2].timestamp, lines[3].timestamp)

\* C3: the records one file pushed have non-decreasing timestamps in the
\* order of the file's lines.
C3_FileOrderMonotonic ==
    \A a \in pushed : \A b \in pushed :
        (a.file = b.file /\ a.line_index < b.line_index)
            => TsLeq(a.timestamp, b.timestamp)

\* C4: all records pushed by the scan of one file were resolved with the
\* same year.
C4_OneYearPerFile ==
    \A a \in pushed : \A b \in pushed :
        a.file = b.file => TsYear(a.timestamp) = TsYear(b.timestamp)

\* C5: when the scan of a file has ended, every record it pushed carries the
\* year its preamble declares, or the default year if the preamble declares
\* none.
C5_YearPrecedence ==
    \A f \in input_files :
        readers[f].pc = "done" =>
            \A a \in pushed :
                a.file = f =>
                    TsYear(a.timestamp) = YearOf(readers[f].created_at, arg_info)

\* The iteration on the current line of file f has run to its end
Handled(f) == readers[f].outcome \notin {"none", "pending"}

\* The current line of file f matches the grammar and names a date or a time
\* of day that does not exist in the year it is resolved with
InvalidCalendarLine(f) ==
    LET l == readers[f].line
        y == YearOf(readers[f].created_at, arg_info)
    IN  /\ l.kind = "log"
        /\ \/ ~from_ymd(y, DigitsValue(l.month), DigitsValue(l.day))
           \/ ~and_hms(DigitsValue(l.hour), DigitsValue(l.minute),
                       DigitsValue(l.second))

\* C6: a line that was read is appended iff it matches the grammar (and
\* denotes a timestamp), holds the substring (if one is set) and its
\* timestamp lies within the bounds (if set).
C6_ConjunctiveFilter ==
    \A f \in input_files :
        Handled(f) =>
            LET l == readers[f].line
            IN  readers[f].outcome = "appended"
                <=> /\ l.kind = "log"
                    /\ ~InvalidCalendarLine(f)
                    /\ ~LacksSubstring(l, arg_info)
                    /\ ~OutOfBounds(
                          LineTimestamp(l, YearOf(readers[f].created_at, arg_info)),
                          arg_info)

\* A task of the pool ends only by itself: no reader is stopped with no
\* fault of its own
OwnTerminalStates ==
    \A g \in input_files :
        readers[g].pc = "panicked" => readers[g].fault # "none"

\* C7: a failed read in one file stops that file's scan alone: main does not
\* panic, no other task is stopped by it, and when main is done every task
\* has ended and every pushed record, the failing file's included, is in
\* the output.
C7_ReadErrorIsolated ==
    (\E f \in input_files : readers[f].fault = "io") =>
        /\ main_pc # "panicked"
        /\ OwnTerminalStates
        /\ main_pc = "done" =>
              /\ \A g \in input_files : readers[g].pc \in Terminal
              /\ pushed \subseteq Range(lines)

\* A file's read failed after it had pushed a record, another file ran to
\* its end of file, and both files' records are in the output.
C7_Witness ==
    /\ main_pc = "done"
    /\ \E f \in input_files : \E g \in input_files :
          /\ readers[f].fault = "io"
          /\ readers[g].pc = "done"
          /\ \E a \in Range(lines) : a.file = f
          /\ \E b \in Range(lines) : b.file = g

\* C8: when a file cannot be opened, every other file is still scanned to
\* a terminal state.
C8_OpenErrorIsolated ==
    \A f \in input_files : \A g \in input_files :
        (/\ readers[f].fault = "open"
         /\ g # f
         /\ main_pc \in {"done", "panicked"})
            => readers[g].pc \in Terminal

\* C9: a grammar line with an invalid calendar date is counted as unparsed
\* and the scan goes on.
C9_InvalidDateUnparsed ==
    \A f \in input_files :
        (Handled(f) /\ InvalidCalendarLine(f)
            /\ ~LacksSubstring(readers[f].line, arg_info))
            => /\ readers[f].outcome = "unparsed"
               /\ readers[f].pc # "panicked"

\* C10: YBLogLine::parse never raises.
C10_ParseNeverRaises ==
    \A f \in input_files :
        readers[f].fault \notin {"calendar", "thread_id", "line_number"}

\* At most cpus tasks run at a time and no file is queued twice
PoolBounded ==
    /\ Cardinality(Active) <= cpus
    /\ \A i \in 1..Len(queue) : \A j \in 1..Len(queue) :
          i # j => queue[i] # queue[j]
    /\ \A i \in 1..Len(queue) : readers[queue[i]].pc = "queued"

\* C11: one scan task per input file, at most cpus of them running at any
\* moment, each file queued once, and when main has ended no input file
\* that could be opened is left unscanned.
C11_OneTaskPerFile ==
    /\ PoolBounded
    /\ main_pc \in {"done", "panicked"} =>
          \A f \in input_files :
              readers[f].pc \in Terminal \/ readers[f].fault = "open"

\* C12: from the moment main goes on behind pool.join() (lock, clone, sort,
\* print) every scan task is in a terminal state, so no push overlaps or
\* follows the final read.
C12_FinalizeAfterAllScans ==
    main_pc \in {"lock", "sort", "emit", "done"} =>
        /\ queue = <<>>
        /\ \A f \in input_files : readers[f].pc \in Terminal

\* main has cloned the collector after two files' tasks pushed into it
C12_Witness ==
    /\ main_pc = "sort"
    /\ \E a \in Range(lines) : \E b \in Range(lines) : a.file # b.file

\* C13: every scan that has reached a terminal state has produced its
\* summary, which carries the counters accumulated so far.
C13_SummaryAtEveryEnd ==
    \A f \in input_files :
        readers[f].pc \in Terminal =>
            readers[f].summary = Some(<<readers[f].successfully_parsed_lines,
                                        readers[f].unsuccessfully_parsed_lines,
                                        readers[f].skipped_lines>>)

\* The place of record x in sequence s
Position(s, x) == CHOOSE k \in 1..Len(s) : s[k] = x

\* C14: records with equal timestamps are emitted in the order in which they
\* were appended to the collector.
C14_StableByAppendOrder ==
    main_pc \in {"emit", "done"} =>
        \A i \in 1..Len(lines) : \A j \in 1..Len(lines) :
            (i < j /\ lines[i].timestamp = lines[j].timestamp)
                => Position(output_lines, lines[i])
                     < Position(output_lines, lines[j])

\* Two files pushed records with the same timestamp and the sort moved a
\* record
C14_Witness ==
    /\ main_pc = "done"
    /\ lines # output_lines
    /\ \E i \in 1..Len(lines) : \E j \in 1..Len(lines) :
          /\ i < j
          /\ lines[i].timestamp = lines[j].timestamp
          /\ lines[i].file # lines[j].file

\* C15: a scanner holds the collector's lock only inside its push: a scanner
\* that is reading or parsing a line, or has ended, does not hold it.
C15_LockOnlyAroundPush ==
    \A f \in input_files :
        readers[f].pc # "push" => holder # Some(f)

\* One scanner holds the lock for its push while another is at a read
C15_Witness ==
    \E f \in input_files : \E g \in input_files :
        /\ f # g
        /\ readers[f].pc = "next"
        /\ readers[g].pc = "push"
        /\ holder = Some(g)

\* The current line of file f is a 'Log file created at' line inside the
\* preamble window and the loop body has run on it
CreatedLineInWindow(f) ==
    /\ readers[f].outcome \notin {"none", "pending", "panic"}
    /\ readers[f].line.kind = "created"
    /\ LinesRead(readers[f]) <= PREAMBLE_NUM_LINES

\* C16: the scan of a file stops at a 'Log file created at' line of the
\* preamble window iff an upper bound is set and the declared date is
\* strictly greater than it (an equal date or an absent bound does not stop
\* it); once stopped, the scan reads, counts and appends nothing more.
C16_SkipByCreationDate ==
    /\ [](\A f \in input_files :
            /\ readers[f].pc = "skipped" => CreatedLineInWindow(f)
            /\ CreatedLineInWindow(f) =>
                  (readers[f].pc = "skipped"
                     <=> /\ arg_info.highest_timestamp # None
                         /\ TsLess(arg_info.highest_timestamp,
                                   CreatedAt(readers[f].line).timestamp)))
    /\ [][\A f \in input_files :
            readers[f].pc = "skipped" =>
                /\ readers'[f] = readers[f]
                /\ \A rec \in pushed' \ pushed : rec.file # f]_vars

\* One file was stopped at its creation line after an earlier line of it was
\* read, while another file whose creation date equals the bound goes on
C16_Witness ==
    \E f \in input_files : \E g \in input_files :
        /\ readers[f].pc = "skipped"
        /\ readers[f].line_index > 1
        /\ CreatedLineInWindow(g)
        /\ arg_info.highest_timestamp = CreatedAt(readers[g].line).timestamp
        /\ readers[g].pc # "skipped"

\* C17: with a substring filter set, a line that was read and lacks the
\* substring is counted as skipped, unless the scan stopped at it by the
\* preamble-date test.
C17_SubstringFilterSkips ==
    \A f \in input_files :
        (/\ arg_info.line_contains # None
         /\ readers[f].outcome \notin {"none", "break"}
         /\ ~readers[f].line.contains)
            => readers[f].outcome = "skipped"

\* C18: the loop body run on a line with index 11 or later leaves created_at
\* and running_on_machine (and so the year of later lines) as they were and
\* does not stop the scan; a 'Log file created at' or 'Running on machine'
\* line there is tested against no preamble pattern: it is plain text,
\* unparsed or skipped by the substring filter.
C18_PreambleFrozen ==
    [][\A f \in input_files :
          (/\ readers[f].pc = "next"
           /\ readers[f].line_index > PREAMBLE_NUM_LINES)
             => /\ readers'[f].created_at = readers[f].created_at
                /\ readers'[f].running_on_machine = readers[f].running_on_machine
                /\ YearOf(readers'[f].created_at, arg_info)
                      = YearOf(readers[f].created_at, arg_info)
                /\ readers'[f].pc # "skipped"
                /\ readers'[f].line.kind \in {"created", "machine"}
                      => readers'[f].outcome \in {"unparsed", "skipped"}]_vars

\* Line 11 or a later one declared a creation date above the upper bound,
\* and the scan went on with no creation date
C18_Witness ==
    \E f \in input_files :
        /\ LinesRead(readers[f]) > PREAMBLE_NUM_LINES
        /\ readers[f].line = CreatedLate
        /\ arg_info.highest_timestamp # None
        /\ readers[f].created_at = None
        /\ readers[f].pc = "next"

\* C19: the loop body run on a line that matches the grammar does the same at
\* every index, inside the preamble window as behind it: without the
\* substring the line is skipped; else it is parsed with the file's year; out
\* of the bounds it is skipped; else it is counted as parsed and handed to the
\* collector with its timestamp, and an appended line is in the collector.
C19_WindowLineIsBodyLine ==
    /\ [](\A f \in input_files :
            (readers[f].outcome = "appended" /\ readers[f].line.kind = "log")
                => \E rec \in pushed :
                      /\ rec.file = f
                      /\ rec.line_index = LinesRead(readers[f]))
    /\ [][\A f \in input_files :
            (/\ readers[f].pc = "next"
             /\ readers'[f] # readers[f]
             /\ readers'[f].line.kind = "log")
               => LET r  == readers[f]
                      r2 == readers'[f]
                      l  == r2.line
                      p  == YBLogLine_parse(l, YearOf(r.created_at, arg_info))
                  IN  IF arg_info.line_contains # None /\ ~l.contains
                      THEN /\ r2.outcome = "skipped"
                           /\ r2.skipped_lines = r.skipped_lines + 1
                           /\ r2.successfully_parsed_lines = r.successfully_parsed_lines
                      ELSE IF p.tag = "panic" THEN r2.outcome = "panic"
                      ELSE IF \/ /\ arg_info.highest_timestamp # None
                                 /\ TsLess(arg_info.highest_timestamp, p.timestamp)
                              \/ /\ arg_info.lowest_timestamp # None
                                 /\ TsLess(p.timestamp, arg_info.lowest_timestamp)
                      THEN /\ r2.outcome = "skipped"
                           /\ r2.skipped_lines = r.skipped_lines + 1
                      ELSE /\ r2.pc = "lock"
                           /\ r2.parsed_line =
                                 Some([timestamp |-> p.timestamp, file |-> f,
                                       line_index |-> r.line_index])
                           /\ r2.successfully_parsed_lines
                                 = r.successfully_parsed_lines + 1]_vars

\* With a substring filter and an upper bound set, a line of the preamble
\* window that matches the grammar was appended, after a preamble line
C19_Witness ==
    \E f \in input_files :
        /\ arg_info.line_contains # None
        /\ arg_info.highest_timestamp # None
        /\ readers[f].outcome = "appended"
        /\ readers[f].line.kind = "log"
        /\ LinesRead(readers[f]) <= PREAMBLE_NUM_LINES
        /\ LinesRead(readers[f]) > 1
        /\ readers[f].created_at # None

\* The records the scan of file f appended to the collector
AppendedBy(f) == {rec \in pushed : rec.file = f}

\* C20: at the end of a file's scan its parsed counter equals the number of
\* records the scan appended: a line is counted as parsed only when it is
\* appended, a line out of the bounds only as skipped.
C20_ParsedEqualsAppended ==
    \A f \in input_files :
        readers[f].pc \in {"done", "skipped"} =>
            readers[f].successfully_parsed_lines = Cardinality(AppendedBy(f))

\* The files whose reader exists and has not been dropped: opened by
\* YBLogReader::new and not yet at the end of the task that owns the reader
OpenFiles ==
    {f \in input_files : readers[f].pc \in {"open", "queued", "next", "lock", "push"}}

\* C21: the number of files open at the same time never exceeds the pool
\* size.
C21_OpenFilesBoundedByPool ==
    Cardinality(OpenFiles) <= cpus

\* C22: at the end of a scan that read its file to the end, parsed + unparsed
\* + skipped equals the number of lines read: every line incremented exactly
\* one of the three counters.
C22_CountersPartitionLines ==
    \A f \in input_files :
        readers[f].pc = "done" =>
            readers[f].successfully_parsed_lines
              + readers[f].unsuccessfully_parsed_lines
              + readers[f].skipped_lines = LinesRead(readers[f])

\* C23: a file whose scan ended by the preamble-date skip has no record in
\* the final output.
C23_SkippedFileContributesNothing ==
    main_pc \in {"emit", "done"} =>
        \A f \in input_files :
            readers[f].pc = "skipped" =>
                \A i \in 1..Len(lines) : lines[i].file # f

\* ---------------------------------------------------------------------------
\* Progress
\* ---------------------------------------------------------------------------
\* The steps of the main thread
MainStep ==
    \/ MainOpen
    \/ MainOpenFail
    \/ MainExecute
    \/ MainJoin
    \/ MainLock
    \/ MainSort
    \/ MainEmit

\* The steps of the task that scans file f
TaskStep(f) ==
    /\ f \in input_files
    /\ \/ ReadEof(f)
       \/ ReadErr(f)
       \/ \E l \in Lines : LoadLine(f, l)
       \/ Lock(f)
       \/ Push(f)

\* Every thread that can run does run: the main thread, the pool's workers
\* taking jobs, and each task
Fairness ==
    /\ WF_vars(MainStep)
    /\ WF_vars(WorkerTake)
    /\ \A f \in 1..MaxFiles : WF_vars(TaskStep(f))

\* The runs progress is checked on: short files, and of the filters only the
\* upper bound (which decides between push, skip and the preamble-date stop)
LiveInit ==
    /\ Init
    /\ ~LongFileRun
    /\ arg_info.lowest_timestamp = None
    /\ arg_info.line_contains = None

LiveSpec == LiveInit /\ [][Next]_vars /\ Fairness

AllScansEnded == \A f \in input_files : readers[f].pc \in Terminal

\* C24: if every file's scan comes to an end (end of input, preamble-date
\* skip or fault), main finishes: join returns, main takes the lock, sorts
\* and emits; and once main has opened every file, it does finish.
C24_ReachesFinalization ==
    /\ <>AllScansEnded => <>(main_pc = "done")
    /\ (main_pc = "execute") ~> (main_pc = "done" /\ holder = None)

\* main finished although a task faulted part-way through, after a push
C24_Witness ==
    /\ main_pc = "done"
    /\ \E f \in input_files :
          /\ readers[f].pc = "panicked"
          /\ AppendedBy(f) # {}

====
